---------------------------- MODULE Spec2Model ----------------------------
(* BSB Compute: the orchestrator (master_run), its scheduling and worker   *)
(* selection functions, and the worker processes (worker_main) of          *)
(* src/main.py, as a state machine.                                        *)
(*                                                                         *)
(* Time is the monotonic clock measured from t0, in whole units; the value *)
(* MaxTime stands for every instant at or after MaxTime.                   *)
(* effective_time and total_effective_work are kept in units of            *)
(* 1/capacidade of the worker concerned, so that tempo_exec / capacidade   *)
(* stays an integer numerator.                                             *)
EXTENDS Integers, Sequences, FiniteSets, TLC

VARIABLES
    scenario,        \* name of the configuration handed to master_run
    config,          \* the config dict: servidores, requisicoes
    policy,          \* "rr" | "sjf" | "priority"
    pc,              \* position of master_run
    ret,             \* value returned (or error raised) by the operation applied
    clock,           \* now() - t0
    workers,         \* List[WorkerInfo], sorted by id
    all_requests,    \* List[Request], sorted by (chegada, id)
    req_by_id,       \* runtime fields of each Request: assigned_worker, start_ts, end_ts
    pending,         \* List[Request]
    arrived_idx,
    rr_req_index,
    rr_worker_ptr,
    completed,
    start_count,
    response_times,
    wait_times,
    dispatch_log,    \* the "Requisicao r atribuida ao Servidor w" log lines, in order
    task_queue,      \* WorkerInfo.task_queue of each worker id
    out_queue,       \* the shared event queue
    stop_event,
    wpc,             \* position of each worker process
    active_count,    \* worker_main.active_count of each worker id
    exec_q,          \* work queue of each worker's ThreadPoolExecutor
    threads          \* run_task calls in progress in each worker

vars == << scenario, config, policy, pc, ret, clock, workers, all_requests,
           req_by_id, pending, arrived_idx, rr_req_index, rr_worker_ptr,
           completed, start_count, response_times, wait_times, dispatch_log,
           task_queue, out_queue, stop_event, wpc, active_count, exec_q,
           threads >>

---------------------------------------------------------------------------
(* Bounds *)

\* the clock saturates here
MaxTime == 1

\* bounds of the inputs drawn for the selection functions
MaxPending == 3

MaxWorkers == 3

MaxCap == 2

None == -1

Policies == {"rr", "sjf", "priority"}

Max(a, b) == IF a >= b THEN a ELSE b

\* a pop that leaves the list as it is
PopKeeps(s, idx) == s

\* list.pop(idx), idx counted from 0
Pop(s, idx) == [k \in 1..(Len(s) - 1) |-> IF k <= idx THEN s[k] ELSE s[k + 1]]

\* lexicographic order on 3-tuples, as Python compares tuples
TupleLess(a, b) ==
    \/ a[1] < b[1]
    \/ a[1] = b[1] /\ a[2] < b[2]
    \/ a[1] = b[1] /\ a[2] = b[2] /\ a[3] < b[3]

---------------------------------------------------------------------------
(* Scheduling policy: pick_next_request *)

\* a key that breaks ties by id before arrival
SjfKeyIdFirst(r) == << r.tempo_exec, r.id, r.chegada >>

SjfKey(r) == << r.tempo_exec, r.chegada, r.id >>

\* a key that breaks ties by id before arrival
PriorityKeyIdFirst(r) == << r.prioridade, r.id, r.chegada >>

PriorityKey(r) == << r.prioridade, r.chegada, r.id >>

\* min(range(len(pending)), key=...): the first index (from 0) whose key is
\* strictly below every earlier one; Key is applied to an element
RECURSIVE MinIndexFrom(_, _, _, _)
MinIndexFrom(keys, i, best, n) ==
    IF i >= n THEN best
    ELSE IF TupleLess(keys[i + 1], keys[best + 1])
         THEN MinIndexFrom(keys, i + 1, i, n)
         ELSE MinIndexFrom(keys, i + 1, best, n)

MinIndex(keys) == MinIndexFrom(keys, 1, 0, Len(keys))

\* what an operation gives back: nothing yet, a returned value, a raised error
Unset == [kind |-> "unset"]

\* a return that always reports success
ReturnedZero(v) == [kind |-> "return", value |-> 0]

Returned(v) == [kind |-> "return", value |-> v]

ValueError == [kind |-> "raise", error |-> "ValueError"]

\* return pending[idx], idx
Selected(p, idx) == [kind |-> "return", req |-> p[idx + 1], idx |-> idx]

pick_next_request(p, pol, rr_index) ==
    IF p = << >> THEN ValueError
    ELSE IF pol = "rr" THEN Selected(p, rr_index % Len(p))
    ELSE IF pol = "sjf"
         THEN Selected(p, MinIndex([k \in 1..Len(p) |-> SjfKey(p[k])]))
    ELSE IF pol = "priority"
         THEN Selected(p, MinIndex([k \in 1..Len(p) |-> PriorityKey(p[k])]))
    ELSE ValueError

---------------------------------------------------------------------------
(* Worker selection: choose_worker_bestfit, choose_worker_rr *)

\* a test that also counts the tasks waiting in the worker's queue
HasFreeSlotCountingSent(w) == w.active + Len(task_queue[w.id]) < w.capacidade

\* w.active < w.capacidade
HasFreeSlot(w) == w.active < w.capacidade

\* a score that breaks ties toward the lower capacity
ScoreLessLowCap(w1, w2) ==
    LET r1 == w1.active * Max(1, w2.capacidade)
        r2 == w2.active * Max(1, w1.capacidade)
    IN  \/ r1 < r2
        \/ r1 = r2 /\ w1.capacidade < w2.capacidade
        \/ r1 = r2 /\ w1.capacidade = w2.capacidade /\ w1.id < w2.id

\* score(w1) < score(w2) for score = (active / max(1, capacidade), -capacidade, id);
\* the ratios are compared by cross multiplication (the divisors are >= 1)
ScoreLess(w1, w2) ==
    LET c1 == Max(1, w1.capacidade)
        c2 == Max(1, w2.capacidade)
        r1 == w1.active * c2
        r2 == w2.active * c1
    IN  TupleLess(<< r1, -w1.capacidade, w1.id >>, << r2, -w2.capacidade, w2.id >>)

\* min(eligible, key=score): the first element not strictly beaten later
RECURSIVE MinByScore(_, _, _)
MinByScore(ws, i, best) ==
    IF i > Len(ws) THEN best
    ELSE IF ~HasFreeSlot(ws[i]) THEN MinByScore(ws, i + 1, best)
    ELSE IF best = None THEN MinByScore(ws, i + 1, i)
    ELSE IF ScoreLess(ws[i], ws[best]) THEN MinByScore(ws, i + 1, i)
    ELSE MinByScore(ws, i + 1, best)

\* the position (from 1) in workers of the WorkerInfo returned, or None
choose_worker_bestfit(ws) == MinByScore(ws, 1, None)

RECURSIVE RrScan(_, _, _)
RrScan(ws, ptr, k) ==
    LET n == Len(ws)
        idx == (ptr + k) % n
    IN  IF k >= n THEN [w |-> None, ptr |-> ptr]
        ELSE IF HasFreeSlot(ws[idx + 1]) THEN [w |-> idx + 1, ptr |-> (idx + 1) % n]
        ELSE RrScan(ws, ptr, k + 1)

\* a scan that leaves the cursor on the worker returned
choose_worker_rr_stuck(ws, ptr) ==
    IF ws = << >> THEN [w |-> None, ptr |-> ptr]
    ELSE LET r == RrScan(ws, ptr, 0)
         IN  IF r.w = None THEN r ELSE [w |-> r.w, ptr |-> r.w - 1]

\* (position from 1 of the WorkerInfo returned or None, new rr_worker_ptr)
choose_worker_rr(ws, ptr) ==
    IF ws = << >> THEN [w |-> None, ptr |-> ptr] ELSE RrScan(ws, ptr, 0)

---------------------------------------------------------------------------
(* Configurations handed to master_run *)

Server(i, c) == [id |-> i, capacidade |-> c]

ReqIn(i, p, te, ch) == [id |-> i, prioridade |-> p, tempo_exec |-> te, chegada |-> ch]

\* Scenario A: one worker of capacity 1, costs 4 and 2 arriving at t=0, SJF
ScenarioA ==
    [name |-> "A", policy |-> "sjf",
     servidores |-> << Server(1, 1) >>,
     requisicoes |-> << ReqIn(1, 2, 4, 0), ReqIn(2, 2, 2, 0) >>]

\* Scenario B: the default configuration of load_config, all arriving at t=0
ScenarioB ==
    [name |-> "B", policy |-> "priority",
     servidores |-> << Server(1, 3), Server(2, 2), Server(3, 1) >>,
     requisicoes |-> << ReqIn(101, 1, 8, 0), ReqIn(102, 3, 3, 0), ReqIn(103, 2, 5, 0) >>]

\* Scenario C: RR, two workers of capacity 1, four requests arriving together
ScenarioC ==
    [name |-> "C", policy |-> "rr",
     servidores |-> << Server(1, 1), Server(2, 1) >>,
     requisicoes |-> << ReqIn(1, 2, 1, 0), ReqIn(2, 2, 1, 0),
                        ReqIn(3, 2, 1, 0), ReqIn(4, 2, 1, 0) >>]

\* A mixed configuration: servers out of id order, a non-positive capacity, a
\* negative cost, requests out of arrival order and a later arrival
Mixed ==
    [name |-> "M", policy |-> "sjf",
     servidores |-> << Server(2, 0), Server(1, 2) >>,
     requisicoes |-> << ReqIn(3, 1, 1, 1), ReqIn(1, 2, 2, 0), ReqIn(2, 1, -1, 0) >>]

\* The same servers with two requests, the more urgent one arriving later,
\* under each policy
Small(pol) ==
    [name |-> "S", policy |-> pol,
     servidores |-> << Server(2, 0), Server(1, 2) >>,
     requisicoes |-> << ReqIn(2, 1, 1, 1), ReqIn(1, 2, -1, 0) >>]

\* One worker of capacity 1 and a second request that arrives while the
\* worker may be busy with the first
Late ==
    [name |-> "L", policy |-> "priority",
     servidores |-> << Server(1, 1) >>,
     requisicoes |-> << ReqIn(1, 2, 1, 0), ReqIn(2, 1, 1, 1) >>]

\* Invalid configurations: no servers, no requests
NoServers == [name |-> "E1", policy |-> "rr", servidores |-> << >>,
              requisicoes |-> << ReqIn(1, 2, 1, 0) >>]

NoRequests == [name |-> "E2", policy |-> "sjf", servidores |-> << Server(1, 1) >>,
               requisicoes |-> << >>]

Configs == {ScenarioA, Mixed, NoServers, NoRequests}
               \cup {Small(pol) : pol \in Policies}

---------------------------------------------------------------------------
(* Helpers of master_run *)

WorkerIdLess(a, b) == a.id < b.id

ArrivalLess(a, b) ==
    a.chegada < b.chegada \/ (a.chegada = b.chegada /\ a.id < b.id)

\* workers.sort(key=lambda w: w.id): insertion of x into the sorted list s
RECURSIVE InsertWorker(_, _)
InsertWorker(s, x) ==
    IF s = << >> THEN << x >>
    ELSE IF WorkerIdLess(x, Head(s)) THEN << x >> \o s
    ELSE << Head(s) >> \o InsertWorker(Tail(s), x)

RECURSIVE SortWorkers(_)
SortWorkers(s) ==
    IF s = << >> THEN << >>
    ELSE InsertWorker(SortWorkers(SubSeq(s, 1, Len(s) - 1)), s[Len(s)])

\* all_requests.sort(key=lambda r: (r.chegada, r.id))
RECURSIVE InsertRequest(_, _)
InsertRequest(s, x) ==
    IF s = << >> THEN << x >>
    ELSE IF ArrivalLess(x, Head(s)) THEN << x >> \o s
    ELSE << Head(s) >> \o InsertRequest(Tail(s), x)

RECURSIVE SortRequests(_)
SortRequests(s) ==
    IF s = << >> THEN << >>
    ELSE InsertRequest(SortRequests(SubSeq(s, 1, Len(s) - 1)), s[Len(s)])

\* WorkerInfo(id, capacidade, task_queue) with cap <= 0 replaced by 1
WorkerInfo(s) ==
    [id |-> s.id,
     capacidade |-> IF s.capacidade <= 0 THEN 1 ELSE s.capacidade,
     active |-> 0,
     total_effective_work |-> 0]

\* Request(...) with te < 0 replaced by 0
Request(r) ==
    [id |-> r.id, prioridade |-> r.prioridade,
     tempo_exec |-> IF r.tempo_exec < 0 THEN 0 ELSE r.tempo_exec,
     chegada |-> r.chegada]

RuntimeFields == [assigned_worker |-> None, start_ts |-> None, end_ts |-> None]

\* a lookup that falls back on the first worker
WorkerPosOrFirst(wid) ==
    IF \E k \in 1..Len(workers) : workers[k].id = wid
    THEN CHOOSE k \in 1..Len(workers) : workers[k].id = wid
    ELSE 1

\* next((x for x in workers if x.id == wid), None), as a position or None
WorkerPos(wid) ==
    IF \E k \in 1..Len(workers) : workers[k].id = wid
    THEN CHOOSE k \in 1..Len(workers) :
             workers[k].id = wid /\ \A j \in 1..(k - 1) : workers[j].id # wid
    ELSE None

CapOf(wid) == workers[WorkerPos(wid)].capacidade

ReqOf(rid) == CHOOSE r \in {all_requests[k] : k \in 1..Len(all_requests)} : r.id = rid

\* a total that counts only the requests admitted so far
TotalArrived == arrived_idx

total_n == Len(all_requests)

\* the arrivals loop: admits requests while chegada <= cur_t
RECURSIVE ArrivedUpTo(_, _)
ArrivedUpTo(i, cur_t) ==
    IF i < total_n /\ all_requests[i + 1].chegada <= cur_t
    THEN ArrivedUpTo(i + 1, cur_t)
    ELSE i

Sentinel == [kind |-> "None"]

TaskMsg(req) ==
    [kind |-> "task", id |-> req.id, prioridade |-> req.prioridade,
     tempo_exec |-> req.tempo_exec, chegada_ts |-> req.chegada]

---------------------------------------------------------------------------
(* master_run *)

InitWith(cs) ==
    /\ \E c \in cs :
          /\ config = [servidores |-> c.servidores, requisicoes |-> c.requisicoes]
          /\ policy = c.policy
          /\ scenario = c.name
    /\ pc = "init"
    /\ ret = Unset
    /\ clock = 0
    /\ workers = << >>
    /\ all_requests = << >>
    /\ req_by_id = << >>
    /\ pending = << >>
    /\ arrived_idx = 0
    /\ rr_req_index = 0
    /\ rr_worker_ptr = 0
    /\ completed = 0
    /\ start_count = 0
    /\ response_times = << >>
    /\ wait_times = << >>
    /\ dispatch_log = << >>
    /\ task_queue = << >>
    /\ out_queue = << >>
    /\ stop_event = FALSE
    /\ wpc = << >>
    /\ active_count = << >>
    /\ exec_q = << >>
    /\ threads = << >>

Init == InitWith(Configs)

\* Scenario B alone
InitB == InitWith({ScenarioB})

\* Scenario C alone
InitC == InitWith({ScenarioC})

\* validation of the config, construction of workers and requests, p.start(), t0
MasterStart ==
    /\ pc = "init"
    /\ IF config.servidores = << >> \/ config.requisicoes = << >>
       THEN /\ ret' = Returned(2)
            /\ pc' = "returned"
            /\ UNCHANGED << workers, all_requests, req_by_id, task_queue, wpc,
                            active_count, exec_q, threads >>
       ELSE LET ws == SortWorkers([k \in 1..Len(config.servidores) |->
                                      WorkerInfo(config.servidores[k])])
                rs == SortRequests([k \in 1..Len(config.requisicoes) |->
                                       Request(config.requisicoes[k])])
                wids == {ws[k].id : k \in 1..Len(ws)}
                rids == {rs[k].id : k \in 1..Len(rs)}
            IN  /\ workers' = ws
                /\ all_requests' = rs
                /\ req_by_id' = [i \in rids |-> RuntimeFields]
                /\ task_queue' = [w \in wids |-> << >>]
                /\ wpc' = [w \in wids |-> "check"]
                /\ active_count' = [w \in wids |-> 0]
                /\ exec_q' = [w \in wids |-> << >>]
                /\ threads' = [w \in wids |-> {}]
                /\ pc' = "arrive"
                /\ ret' = ret
    /\ UNCHANGED << scenario, config, policy, clock, pending, arrived_idx,
                    rr_req_index, rr_worker_ptr, completed, start_count,
                    response_times, wait_times, dispatch_log, out_queue, stop_event >>

\* top of the main loop: cur_t = now() - t0 and the arrivals
MasterArrive ==
    /\ pc = "arrive"
    /\ LET n == ArrivedUpTo(arrived_idx, clock)
       IN  /\ pending' = pending \o SubSeq(all_requests, arrived_idx + 1, n)
           /\ arrived_idx' = n
    /\ pc' = "drain"
    /\ UNCHANGED << scenario, config, policy, ret, clock, workers, all_requests,
                    req_by_id, rr_req_index, rr_worker_ptr, completed, start_count,
                    response_times, wait_times, dispatch_log, task_queue, out_queue,
                    stop_event, wpc, active_count, exec_q, threads >>

\* a mirror that only ever counts up
MirrorCountsUp(w, ev) == Max(w.active, ev.active)

\* w.active = int(ev.get("active", w.active)): the mirror takes the payload
MirrorAfter(w, ev) == ev.active

\* one event taken from out_queue by get_nowait() and handled
MasterDrainEvent ==
    /\ pc = "drain"
    /\ out_queue # << >>
    /\ out_queue' = Tail(out_queue)
    /\ LET ev == Head(out_queue)
           k == WorkerPos(ev.worker_id)
           known == ev.id \in DOMAIN req_by_id
       IN  IF k = None
           THEN UNCHANGED << workers, req_by_id, completed, start_count,
                             response_times, wait_times >>
           ELSE IF ev.event = "START"
           THEN /\ start_count' = start_count + 1
                /\ workers' = [workers EXCEPT ![k].active = MirrorAfter(workers[k], ev)]
                /\ req_by_id' =
                       IF known
                       THEN [req_by_id EXCEPT ![ev.id].start_ts = ev.start_ts,
                                              ![ev.id].assigned_worker = ev.worker_id]
                       ELSE req_by_id
                /\ UNCHANGED << completed, response_times, wait_times >>
           ELSE IF ev.event = "DONE"
           THEN LET arrival_abs == ReqOf(ev.id).chegada
                    start_abs == IF req_by_id[ev.id].start_ts # None
                                 THEN req_by_id[ev.id].start_ts
                                 ELSE ev.start_ts
                    end_abs == ev.end_ts
                IN  /\ workers' =
                           [workers EXCEPT
                               ![k].active = MirrorAfter(workers[k], ev),
                               ![k].total_effective_work = @ + ev.effective_time]
                    /\ req_by_id' =
                           IF known
                           THEN [req_by_id EXCEPT ![ev.id].end_ts = ev.end_ts]
                           ELSE req_by_id
                    /\ response_times' =
                           IF known
                           THEN Append(response_times, Max(0, end_abs - arrival_abs))
                           ELSE response_times
                    /\ wait_times' =
                           IF known
                           THEN Append(wait_times, Max(0, start_abs - arrival_abs))
                           ELSE wait_times
                    /\ completed' = completed + 1
                    /\ UNCHANGED start_count
           ELSE UNCHANGED << workers, req_by_id, completed, start_count,
                             response_times, wait_times >>
    /\ UNCHANGED << scenario, config, policy, pc, ret, clock, all_requests, pending,
                    arrived_idx, rr_req_index, rr_worker_ptr, dispatch_log,
                    task_queue, stop_event, wpc, active_count, exec_q, threads >>

\* get_nowait() raises queue.Empty: the drain ends, then the exit condition
MasterDrainEmpty ==
    /\ pc = "drain"
    /\ out_queue = << >>
    /\ pc' = IF completed >= total_n /\ arrived_idx >= total_n
             THEN "finally" ELSE "dispatch"
    /\ UNCHANGED << scenario, config, policy, ret, clock, workers, all_requests,
                    req_by_id, pending, arrived_idx, rr_req_index, rr_worker_ptr,
                    completed, start_count, response_times, wait_times,
                    dispatch_log, task_queue, out_queue, stop_event, wpc,
                    active_count, exec_q, threads >>

\* a loop that does not test pending
DispatchLoopAlways == TRUE

\* while pending:
DispatchLoopCond == pending # << >>

\* if policy == "rr": choose_worker_rr else choose_worker_bestfit
ChooseWorker ==
    IF policy = "rr"
    THEN choose_worker_rr(workers, rr_worker_ptr)
    ELSE [w |-> choose_worker_bestfit(workers), ptr |-> rr_worker_ptr]

\* a cursor that is never advanced
KeepRrReqIndex(idx, p) == idx

\* rr_req_index = (rr_req_index + 1) % max(1, len(pending)), before the pop
AdvanceRrReqIndex(idx, p) == (idx + 1) % Max(1, Len(p))

\* one turn of the dispatch sub-loop; leaving it goes through time.sleep(0.02)
\* back to the top of the main loop
MasterDispatch ==
    /\ pc = "dispatch"
    /\ IF ~DispatchLoopCond
       THEN /\ pc' = "arrive"
            /\ UNCHANGED << ret, rr_worker_ptr, rr_req_index, pending,
                            dispatch_log, task_queue >>
       ELSE LET sel == ChooseWorker
            IN  /\ rr_worker_ptr' = sel.ptr
                /\ IF sel.w = None
                   THEN /\ pc' = "arrive"
                        /\ UNCHANGED << ret, rr_req_index, pending, dispatch_log,
                                        task_queue >>
                   ELSE LET pick == pick_next_request(pending, policy, rr_req_index)
                            wid == workers[sel.w].id
                        IN  IF pick.kind # "return"
                            THEN /\ ret' = pick
                                 /\ pc' = "finally"
                                 /\ UNCHANGED << rr_req_index, pending,
                                                 dispatch_log, task_queue >>
                            ELSE /\ rr_req_index' =
                                        IF policy = "rr"
                                        THEN AdvanceRrReqIndex(rr_req_index, pending)
                                        ELSE rr_req_index
                                 /\ pending' = Pop(pending, pick.idx)
                                 /\ dispatch_log' =
                                        Append(dispatch_log, << pick.req.id, wid >>)
                                 /\ task_queue' =
                                        [task_queue EXCEPT
                                            ![wid] = Append(@, TaskMsg(pick.req))]
                                 /\ UNCHANGED << pc, ret >>
    /\ UNCHANGED << scenario, config, policy, clock, workers, all_requests,
                    req_by_id, arrived_idx, completed, start_count, response_times,
                    wait_times, out_queue, stop_event, wpc, active_count, exec_q,
                    threads >>

\* finally: stop_event.set() and the None sentinel to every worker
MasterFinally ==
    /\ pc = "finally"
    /\ stop_event' = TRUE
    /\ task_queue' = [w \in DOMAIN task_queue |-> Append(task_queue[w], Sentinel)]
    /\ pc' = "join"
    /\ UNCHANGED << scenario, config, policy, ret, clock, workers, all_requests,
                    req_by_id, pending, arrived_idx, rr_req_index, rr_worker_ptr,
                    completed, start_count, response_times, wait_times,
                    dispatch_log, out_queue, wpc, active_count, exec_q, threads >>

\* p.join(timeout=2.0) of every process returns, because the process has
\* ended or because the timeout has run out (possible once the clock has
\* saturated); then the report and return 0 (an error raised in the loop is
\* raised again instead)
MasterJoin ==
    /\ pc = "join"
    /\ \/ \A w \in DOMAIN wpc : wpc[w] = "terminated"
       \/ clock = MaxTime
    /\ pc' = "stopped"
    /\ ret' = IF ret = Unset THEN Returned(0) ELSE ret
    /\ UNCHANGED << scenario, config, policy, clock, workers, all_requests,
                    req_by_id, pending, arrived_idx, rr_req_index, rr_worker_ptr,
                    completed, start_count, response_times, wait_times,
                    dispatch_log, task_queue, out_queue, stop_event, wpc,
                    active_count, exec_q, threads >>

---------------------------------------------------------------------------
(* worker_main *)

\* while not stop_event.is_set():
WorkerCheckStop(w) ==
    /\ wpc[w] = "check"
    /\ wpc' = [wpc EXCEPT ![w] = IF stop_event THEN "shutdown" ELSE "get"]
    /\ UNCHANGED << scenario, config, policy, pc, ret, clock, workers, all_requests,
                    req_by_id, pending, arrived_idx, rr_req_index, rr_worker_ptr,
                    completed, start_count, response_times, wait_times,
                    dispatch_log, task_queue, out_queue, stop_event, active_count,
                    exec_q, threads >>

\* msg = in_queue.get(timeout=0.1): None breaks the loop, a task is submitted
WorkerGet(w) ==
    /\ wpc[w] = "get"
    /\ task_queue[w] # << >>
    /\ task_queue' = [task_queue EXCEPT ![w] = Tail(@)]
    /\ IF Head(task_queue[w]) = Sentinel
       THEN /\ wpc' = [wpc EXCEPT ![w] = "shutdown"]
            /\ UNCHANGED exec_q
       ELSE /\ wpc' = [wpc EXCEPT ![w] = "check"]
            /\ exec_q' = [exec_q EXCEPT ![w] = Append(@, Head(task_queue[w]))]
    /\ UNCHANGED << scenario, config, policy, pc, ret, clock, workers, all_requests,
                    req_by_id, pending, arrived_idx, rr_req_index, rr_worker_ptr,
                    completed, start_count, response_times, wait_times,
                    dispatch_log, out_queue, stop_event, active_count, threads >>

\* in_queue.get(timeout=0.1) raises queue.Empty: continue
WorkerGetTimeout(w) ==
    /\ wpc[w] = "get"
    /\ task_queue[w] = << >>
    /\ wpc' = [wpc EXCEPT ![w] = "check"]
    /\ UNCHANGED << scenario, config, policy, pc, ret, clock, workers, all_requests,
                    req_by_id, pending, arrived_idx, rr_req_index, rr_worker_ptr,
                    completed, start_count, response_times, wait_times,
                    dispatch_log, task_queue, out_queue, stop_event, active_count,
                    exec_q, threads >>

\* ThreadPoolExecutor(max_workers=max(1, capacity))
PoolSize(w) == Max(1, CapOf(w))

\* set_active(delta): active_count += delta under active_lock, returns it
set_active(w, delta) == active_count[w] + delta

\* a pool thread takes the next submitted task: start_ts = now() and
\* cur_active = set_active(+1)
TaskStart(w) ==
    /\ wpc[w] # "terminated"
    /\ exec_q[w] # << >>
    /\ Cardinality(threads[w]) < PoolSize(w)
    /\ LET msg == Head(exec_q[w])
       IN  /\ exec_q' = [exec_q EXCEPT ![w] = Tail(@)]
           /\ active_count' = [active_count EXCEPT ![w] = set_active(w, 1)]
           /\ threads' = [threads EXCEPT ![w] = @ \cup
                  {[id |-> msg.id, tempo_exec |-> msg.tempo_exec,
                    arrival_ts |-> msg.chegada_ts, start_ts |-> clock,
                    end_ts |-> None, cur_active |-> set_active(w, 1),
                    pc |-> "put_start"]}]
    /\ UNCHANGED << scenario, config, policy, pc, ret, clock, workers, all_requests,
                    req_by_id, pending, arrived_idx, rr_req_index, rr_worker_ptr,
                    completed, start_count, response_times, wait_times,
                    dispatch_log, task_queue, out_queue, stop_event, wpc >>

StartEvent(w, t) ==
    [event |-> "START", worker_id |-> w, id |-> t.id, arrival_ts |-> t.arrival_ts,
     start_ts |-> t.start_ts, end_ts |-> None, effective_time |-> 0,
     active |-> t.cur_active]

\* effective_time = max(0.0, tempo_exec / max(1, capacity)), in units of 1/capacity
EffectiveTime(w, t) == Max(0, t.tempo_exec)

\* a DONE event stamped with the arrival instead of the end
DoneEventArrivalStamped(w, t) ==
    [event |-> "DONE", worker_id |-> w, id |-> t.id, arrival_ts |-> t.arrival_ts,
     start_ts |-> t.start_ts, end_ts |-> t.arrival_ts,
     effective_time |-> EffectiveTime(w, t), active |-> t.cur_active]

\* a DONE event that carries the count before the decrement
DoneEventPreDecrement(w, t) ==
    [event |-> "DONE", worker_id |-> w, id |-> t.id, arrival_ts |-> t.arrival_ts,
     start_ts |-> t.start_ts, end_ts |-> t.end_ts,
     effective_time |-> EffectiveTime(w, t), active |-> t.cur_active + 1]

DoneEvent(w, t) ==
    [event |-> "DONE", worker_id |-> w, id |-> t.id, arrival_ts |-> t.arrival_ts,
     start_ts |-> t.start_ts, end_ts |-> t.end_ts,
     effective_time |-> EffectiveTime(w, t), active |-> t.cur_active]

\* out_queue.put({"event": "START", ...})
TaskPutStart(w, t) ==
    /\ t.pc = "put_start"
    /\ out_queue' = Append(out_queue, StartEvent(w, t))
    /\ threads' = [threads EXCEPT ![w] = (@ \ {t}) \cup {[t EXCEPT !.pc = "sleep"]}]
    /\ UNCHANGED << scenario, config, policy, pc, ret, clock, workers, all_requests,
                    req_by_id, pending, arrived_idx, rr_req_index, rr_worker_ptr,
                    completed, start_count, response_times, wait_times,
                    dispatch_log, task_queue, stop_event, wpc, active_count, exec_q >>

\* time.sleep(effective_time) has returned
Slept(w, t) ==
    \/ clock = MaxTime
    \/ (clock - t.start_ts) * PoolSize(w) >= EffectiveTime(w, t)

\* end_ts = now() and cur_active = set_active(-1)
TaskWake(w, t) ==
    /\ t.pc = "sleep"
    /\ Slept(w, t)
    /\ active_count' = [active_count EXCEPT ![w] = set_active(w, -1)]
    /\ threads' = [threads EXCEPT ![w] = (@ \ {t}) \cup
           {[t EXCEPT !.pc = "put_done", !.end_ts = clock,
                      !.cur_active = set_active(w, -1)]}]
    /\ UNCHANGED << scenario, config, policy, pc, ret, clock, workers, all_requests,
                    req_by_id, pending, arrived_idx, rr_req_index, rr_worker_ptr,
                    completed, start_count, response_times, wait_times,
                    dispatch_log, task_queue, out_queue, stop_event, wpc, exec_q >>

\* out_queue.put({"event": "DONE", ...}); run_task returns
TaskPutDone(w, t) ==
    /\ t.pc = "put_done"
    /\ out_queue' = Append(out_queue, DoneEvent(w, t))
    /\ threads' = [threads EXCEPT ![w] = @ \ {t}]
    /\ UNCHANGED << scenario, config, policy, pc, ret, clock, workers, all_requests,
                    req_by_id, pending, arrived_idx, rr_req_index, rr_worker_ptr,
                    completed, start_count, response_times, wait_times,
                    dispatch_log, task_queue, stop_event, wpc, active_count, exec_q >>

\* a shutdown that does not wait for the submitted tasks
WorkerExitNoWait(w) ==
    /\ wpc[w] = "shutdown"
    /\ wpc' = [wpc EXCEPT ![w] = "terminated"]
    /\ UNCHANGED << scenario, config, policy, pc, ret, clock, workers, all_requests,
                    req_by_id, pending, arrived_idx, rr_req_index, rr_worker_ptr,
                    completed, start_count, response_times, wait_times,
                    dispatch_log, task_queue, out_queue, stop_event, active_count,
                    exec_q, threads >>

\* executor.shutdown(wait=True) returns once every submitted task has run
WorkerExit(w) ==
    /\ wpc[w] = "shutdown"
    /\ exec_q[w] = << >>
    /\ threads[w] = {}
    /\ wpc' = [wpc EXCEPT ![w] = "terminated"]
    /\ UNCHANGED << scenario, config, policy, pc, ret, clock, workers, all_requests,
                    req_by_id, pending, arrived_idx, rr_req_index, rr_worker_ptr,
                    completed, start_count, response_times, wait_times,
                    dispatch_log, task_queue, out_queue, stop_event, active_count,
                    exec_q, threads >>

\* the monotonic clock advances
Tick ==
    /\ clock < MaxTime
    /\ clock' = clock + 1
    /\ UNCHANGED << scenario, config, policy, pc, ret, workers, all_requests,
                    req_by_id, pending, arrived_idx, rr_req_index, rr_worker_ptr,
                    completed, start_count, response_times, wait_times,
                    dispatch_log, task_queue, out_queue, stop_event, wpc,
                    active_count, exec_q, threads >>

Next ==
    \/ MasterStart
    \/ MasterArrive
    \/ MasterDrainEvent
    \/ MasterDrainEmpty
    \/ MasterDispatch
    \/ MasterFinally
    \/ MasterJoin
    \/ \E w \in DOMAIN wpc : WorkerCheckStop(w)
    \/ \E w \in DOMAIN wpc : WorkerGet(w)
    \/ \E w \in DOMAIN wpc : WorkerGetTimeout(w)
    \/ \E w \in DOMAIN wpc : TaskStart(w)
    \/ \E w \in DOMAIN wpc : \E t \in threads[w] : TaskPutStart(w, t)
    \/ \E w \in DOMAIN wpc : \E t \in threads[w] : TaskWake(w, t)
    \/ \E w \in DOMAIN wpc : \E t \in threads[w] : TaskPutDone(w, t)
    \/ \E w \in DOMAIN wpc : WorkerExit(w)
    \/ Tick

Spec == Init /\ [][Next]_vars

SpecB == InitB /\ [][Next]_vars

SpecC == InitC /\ [][Next]_vars

---------------------------------------------------------------------------
(* Scheduling: the orchestrator process, each worker process and the pool *)
(* threads keep running, and time advances                                *)

\* the configurations of the fair runs
InitLive == InitWith({ScenarioA, Late} \cup {Small(pol) : pol \in Policies})

\* the next step of master_run
Master ==
    \/ MasterStart
    \/ MasterArrive
    \/ MasterDrainEvent
    \/ MasterDrainEmpty
    \/ MasterDispatch
    \/ MasterFinally
    \/ MasterJoin

\* the next step of the main thread of worker process w
WorkerLoop(w) ==
    \/ WorkerCheckStop(w)
    \/ WorkerGet(w)
    \/ WorkerGetTimeout(w)
    \/ WorkerExit(w)

\* the next step of some pool thread of some worker
PoolStep ==
    \E w \in DOMAIN wpc :
        \/ TaskStart(w)
        \/ \E t \in threads[w] : TaskPutStart(w, t) \/ TaskWake(w, t) \/ TaskPutDone(w, t)

Fairness ==
    /\ WF_vars(Master)
    /\ \A w \in 1..MaxWorkers : WF_vars(w \in DOMAIN wpc /\ WorkerLoop(w))
    /\ WF_vars(PoolStep)
    /\ WF_vars(Tick)

SpecLive == InitLive /\ [][Next]_vars /\ Fairness

---------------------------------------------------------------------------
(* The selection functions applied to drawn inputs *)

\* prioridade: 1=alta, 2=media, 3=baixa
PrioValues == {1, 2, 3}

CostValues == {0, 1}

ChegadaValues == {0, 1}

RequestInputs ==
    {[id |-> i, prioridade |-> p, tempo_exec |-> te, chegada |-> ch] :
        i \in 1..MaxPending, p \in PrioValues, te \in CostValues,
        ch \in ChegadaValues}

IsSortedByArrival(p) ==
    /\ \A k \in 1..(Len(p) - 1) : ArrivalLess(p[k], p[k + 1])
    /\ \A j, k \in 1..Len(p) : j # k => p[j].id # p[k].id

\* pending lists as master_run builds them: distinct ids, in (chegada, id) order
PendingInputs ==
    UNION {{p \in [1..n -> RequestInputs] : IsSortedByArrival(p)} : n \in 0..MaxPending}

WorkerInputsOn(ids) ==
    {f \in [ids -> [capacidade : 1..MaxCap, active : 0..MaxCap]] :
        \A i \in ids : f[i].active <= f[i].capacidade}

\* the WorkerInfo list of f, in id order
RECURSIVE WorkerList(_, _)
WorkerList(f, i) ==
    IF i > MaxWorkers THEN << >>
    ELSE (IF i \in DOMAIN f
          THEN << [id |-> i, capacidade |-> f[i].capacidade, active |-> f[i].active,
                   total_effective_work |-> 0] >>
          ELSE << >>) \o WorkerList(f, i + 1)

\* worker lists as master_run keeps them: distinct ids, sorted by id,
\* capacidade >= 1, 0 <= active <= capacidade
WorkersInputs ==
    {WorkerList(f, 1) :
        f \in UNION {WorkerInputsOn(ids) : ids \in (SUBSET (1..MaxWorkers)) \ {{}}}}

InitFn ==
    /\ scenario = "fn"
    /\ config = [servidores |-> << >>, requisicoes |-> << >>]
    /\ pc = "call"
    /\ ret = Unset
    /\ clock = 0
    /\ all_requests = << >>
    /\ req_by_id = << >>
    /\ arrived_idx = 0
    /\ completed = 0
    /\ start_count = 0
    /\ response_times = << >>
    /\ wait_times = << >>
    /\ dispatch_log = << >>
    /\ task_queue = << >>
    /\ out_queue = << >>
    /\ stop_event = FALSE
    /\ wpc = << >>
    /\ active_count = << >>
    /\ exec_q = << >>
    /\ threads = << >>
    /\ policy \in Policies
    /\ \/ /\ pending \in PendingInputs
          /\ rr_req_index \in 0..(MaxPending - 1)
          /\ workers = << >>
          /\ rr_worker_ptr = 0
       \/ /\ workers \in WorkersInputs
          /\ rr_worker_ptr \in 0..(Len(workers) - 1)
          /\ pending = << >>
          /\ rr_req_index = 0

FnUnchanged ==
    UNCHANGED << scenario, config, policy, clock, workers, all_requests, req_by_id,
                 pending, arrived_idx, rr_req_index, rr_worker_ptr, completed,
                 start_count, response_times, wait_times, dispatch_log, task_queue,
                 out_queue, stop_event, wpc, active_count, exec_q, threads >>

CallPick ==
    /\ pc = "call"
    /\ ret' = pick_next_request(pending, policy, rr_req_index)
    /\ pc' = "picked"
    /\ FnUnchanged

CallBestfit ==
    /\ pc = "call"
    /\ ret' = [kind |-> "return", w |-> choose_worker_bestfit(workers)]
    /\ pc' = "bestfit"
    /\ FnUnchanged

CallRr ==
    /\ pc = "call"
    /\ ret' = [kind |-> "return"] @@ choose_worker_rr(workers, rr_worker_ptr)
    /\ pc' = "rr"
    /\ FnUnchanged

NextFn == CallPick \/ CallBestfit \/ CallRr

SpecFn == InitFn /\ [][NextFn]_vars

\* master_run and the selection functions on drawn inputs, side by side
InitAll == Init \/ InitFn

NextAll == Next \/ NextFn

SpecAll == InitAll /\ [][NextAll]_vars

---------------------------------------------------------------------------
(* worker_main as a unit: its inbound queue and the stop event are driven  *)
(* by an environment that sends task messages, sets stop_event and sends   *)
(* the None sentinel at any moment                                         *)

\* the task messages the environment sends
MaxUnitTasks == 2

\* its capacity: one slot, or more than one
UnitCaps == {1, 2}

\* the cost of every task sent: the sleep lasts until the clock has advanced
UnitCost == 1

\* the worker process under test
UnitWorker == 1

InitUnit ==
    /\ scenario = "unit"
    /\ config = [servidores |-> << >>, requisicoes |-> << >>]
    /\ policy = "rr"
    /\ pc = "env"
    /\ ret = Unset
    /\ clock = 0
    /\ \E c \in UnitCaps : workers = << WorkerInfo(Server(UnitWorker, c)) >>
    /\ all_requests = << >>
    /\ req_by_id = << >>
    /\ pending = << >>
    /\ arrived_idx = 0
    /\ rr_req_index = 0
    /\ rr_worker_ptr = 0
    /\ completed = 0
    /\ start_count = 0
    /\ response_times = << >>
    /\ wait_times = << >>
    /\ dispatch_log = << >>
    /\ task_queue = [w \in {UnitWorker} |-> << >>]
    /\ out_queue = << >>
    /\ stop_event = FALSE
    /\ wpc = [w \in {UnitWorker} |-> "check"]
    /\ active_count = [w \in {UnitWorker} |-> 0]
    /\ exec_q = [w \in {UnitWorker} |-> << >>]
    /\ threads = [w \in {UnitWorker} |-> {}]

\* in_queue.put(task message); dispatch_log records what was sent
UnitPut ==
    /\ pc = "env"
    /\ Len(dispatch_log) < MaxUnitTasks
    /\ LET req == [id |-> Len(dispatch_log) + 1, prioridade |-> 2,
                   tempo_exec |-> UnitCost, chegada |-> 0]
       IN  /\ task_queue' = [task_queue EXCEPT ![UnitWorker] = Append(@, TaskMsg(req))]
           /\ dispatch_log' = Append(dispatch_log, << req.id, UnitWorker >>)
    /\ UNCHANGED << scenario, config, policy, pc, ret, clock, workers, all_requests,
                    req_by_id, pending, arrived_idx, rr_req_index, rr_worker_ptr,
                    completed, start_count, response_times, wait_times, out_queue,
                    stop_event, wpc, active_count, exec_q, threads >>

\* stop_event.set()
UnitStop ==
    /\ pc = "env"
    /\ ~stop_event
    /\ stop_event' = TRUE
    /\ UNCHANGED << scenario, config, policy, pc, ret, clock, workers, all_requests,
                    req_by_id, pending, arrived_idx, rr_req_index, rr_worker_ptr,
                    completed, start_count, response_times, wait_times,
                    dispatch_log, task_queue, out_queue, wpc, active_count,
                    exec_q, threads >>

\* in_queue.put(None): the last message the environment sends
UnitSentinel ==
    /\ pc = "env"
    /\ task_queue' = [task_queue EXCEPT ![UnitWorker] = Append(@, Sentinel)]
    /\ pc' = "closed"
    /\ UNCHANGED << scenario, config, policy, ret, clock, workers, all_requests,
                    req_by_id, pending, arrived_idx, rr_req_index, rr_worker_ptr,
                    completed, start_count, response_times, wait_times,
                    dispatch_log, out_queue, stop_event, wpc, active_count,
                    exec_q, threads >>

NextUnit == UnitPut \/ UnitStop \/ UnitSentinel

\* master_run with its workers, and worker_main driven as a unit, side by side
InitWorkers == InitLive \/ InitUnit

NextWorkers == Next \/ NextUnit

SpecWorkers == InitWorkers /\ [][NextWorkers]_vars /\ Fairness

---------------------------------------------------------------------------
(* The event drain given events that name a worker the orchestrator does   *)
(* not hold                                                                *)

\* a worker id that no configuration lists
ForeignWorker == 99

\* a request id that no configuration lists
ForeignRequest == 98

\* the events waiting in out_queue that name the foreign worker
ForeignInQueue ==
    Cardinality({k \in 1..Len(out_queue) : out_queue[k].worker_id = ForeignWorker})

\* out_queue receives a START or DONE event naming the foreign worker, about
\* a request of the run or about none, one such event at a time
ForeignPut ==
    /\ pc \in {"arrive", "drain", "dispatch"}
    /\ ForeignInQueue = 0
    /\ \E e \in {"START", "DONE"}, i \in DOMAIN req_by_id \cup {ForeignRequest} :
          out_queue' = Append(out_queue,
              [event |-> e, worker_id |-> ForeignWorker, id |-> i,
               arrival_ts |-> 0, start_ts |-> clock,
               end_ts |-> IF e = "DONE" THEN clock ELSE None,
               effective_time |-> IF e = "DONE" THEN 1 ELSE 0,
               active |-> 1])
    /\ UNCHANGED << scenario, config, policy, pc, ret, clock, workers, all_requests,
                    req_by_id, pending, arrived_idx, rr_req_index, rr_worker_ptr,
                    completed, start_count, response_times, wait_times,
                    dispatch_log, task_queue, stop_event, wpc, active_count,
                    exec_q, threads >>

InitForeign == InitWith({ScenarioA, Late})

NextForeign == Next \/ ForeignPut

SpecForeign == InitForeign /\ [][NextForeign]_vars

---------------------------------------------------------------------------
(* Claims about the selection functions, under SpecFn *)

\* a <= b for 3-tuples in lexicographic order, written out
Lex3Leq(a1, a2, a3, b1, b2, b3) ==
    \/ a1 < b1
    \/ a1 = b1 /\ a2 < b2
    \/ a1 = b1 /\ a2 = b2 /\ a3 <= b3

\* C6: for every non-empty pending list, pick_next_request with policy "sjf"
\* returns the index of the request whose key (tempo_exec, chegada, id) is the
\* lexicographic minimum over pending.
C6_SjfPicksMinimum ==
    (pc = "picked" /\ policy = "sjf" /\ pending # << >>) =>
        /\ ret.kind = "return"
        /\ ret.idx \in 0..(Len(pending) - 1)
        /\ ret.req = pending[ret.idx + 1]
        /\ \A k \in 1..Len(pending) :
              Lex3Leq(ret.req.tempo_exec, ret.req.chegada, ret.req.id,
                      pending[k].tempo_exec, pending[k].chegada, pending[k].id)

\* SJF has picked a request that is not the first of pending, its cost tied
\* with another request's that arrived later.
C6_Witness ==
    /\ pc = "picked" /\ policy = "sjf" /\ Len(pending) = 3
    /\ ret.kind = "return" /\ ret.idx > 0
    /\ \E k \in 1..Len(pending) :
          /\ pending[k].tempo_exec = ret.req.tempo_exec
          /\ pending[k].chegada > ret.req.chegada
          /\ pending[k].id < ret.req.id

\* C7: for every non-empty pending list, pick_next_request with policy
\* "priority" returns the index of the request whose key (prioridade, chegada,
\* id) is the lexicographic minimum over pending.
C7_PriorityPicksMinimum ==
    (pc = "picked" /\ policy = "priority" /\ pending # << >>) =>
        /\ ret.kind = "return"
        /\ ret.idx \in 0..(Len(pending) - 1)
        /\ ret.req = pending[ret.idx + 1]
        /\ \A k \in 1..Len(pending) :
              Lex3Leq(ret.req.prioridade, ret.req.chegada, ret.req.id,
                      pending[k].prioridade, pending[k].chegada, pending[k].id)

\* Priority has picked a request that is not the first of pending, its
\* priority tied with another request's that arrived later.
C7_Witness ==
    /\ pc = "picked" /\ policy = "priority" /\ Len(pending) = 3
    /\ ret.kind = "return" /\ ret.idx > 0
    /\ \E k \in 1..Len(pending) :
          /\ pending[k].prioridade = ret.req.prioridade
          /\ pending[k].chegada > ret.req.chegada
          /\ pending[k].id < ret.req.id

\* (a.active/a.capacidade, -a.capacidade, a.id) <= the same key of b
BestfitKeyLeq(a, b) ==
    Lex3Leq(a.active * b.capacidade, -a.capacidade, a.id,
            b.active * a.capacidade, -b.capacidade, b.id)

\* C8: choose_worker_bestfit returns none exactly when every worker has
\* active >= capacity; otherwise it returns a worker with active < capacity
\* whose key (active/capacity, -capacity, id) is minimal among the workers with
\* a free slot.
C8_BestfitMinimalFree ==
    (pc = "bestfit") =>
        /\ (ret.w = None) <=>
               (\A k \in 1..Len(workers) : workers[k].active >= workers[k].capacidade)
        /\ ret.w # None =>
               /\ ret.w \in 1..Len(workers)
               /\ workers[ret.w].active < workers[ret.w].capacidade
               /\ \A k \in 1..Len(workers) :
                     workers[k].active < workers[k].capacidade =>
                         BestfitKeyLeq(workers[ret.w], workers[k])

\* Best-fit has returned a worker that is not the first of the list, past a
\* saturated worker and a worker of equal load ratio and lower capacity.
C8_Witness ==
    /\ pc = "bestfit" /\ ret.w # None /\ ret.w > 1
    /\ \E k \in 1..Len(workers) : workers[k].active = workers[k].capacidade
    /\ \E k \in 1..Len(workers) :
          /\ workers[k].active < workers[k].capacidade
          /\ workers[k].active * workers[ret.w].capacidade
                 = workers[ret.w].active * workers[k].capacidade
          /\ workers[k].capacidade < workers[ret.w].capacidade

\* the offsets k of the scan p, p+1, ... (wrapping once) that meet a free slot
RrFreeOffsets ==
    {k \in 0..(Len(workers) - 1) :
        LET w == workers[((rr_worker_ptr + k) % Len(workers)) + 1]
        IN  w.active < w.capacidade}

\* C9: choose_worker_rr returns the first worker with active < capacity found
\* scanning positions p, p+1, ..., wrapping once, with the new cursor (that
\* worker's index + 1) mod n; with no free slot it returns none and the cursor
\* unchanged.
C9_RrFirstFreeFromCursor ==
    (pc = "rr" /\ workers # << >>) =>
        IF RrFreeOffsets = {}
        THEN ret.w = None /\ ret.ptr = rr_worker_ptr
        ELSE LET k == CHOOSE x \in RrFreeOffsets : \A y \in RrFreeOffsets : x <= y
                 idx == (rr_worker_ptr + k) % Len(workers)
             IN  /\ ret.w = idx + 1
                 /\ ret.ptr = (idx + 1) % Len(workers)

\* The scan has wrapped: the worker returned lies before the cursor, and the
\* new cursor is past it.
C9_Witness ==
    /\ pc = "rr" /\ Len(workers) = 3
    /\ ret.w # None /\ ret.w - 1 < rr_worker_ptr
    /\ ret.ptr = ret.w

---------------------------------------------------------------------------
(* Claims about master_run and worker_main *)

\* the task messages in a queue (the None sentinel is not one)
TaskCount(q) == Cardinality({i \in 1..Len(q) : q[i].kind = "task"})

\* requests put on w's task queue whose DONE event has not been emitted yet
Outstanding(w) == TaskCount(task_queue[w]) + Len(exec_q[w]) + Cardinality(threads[w])

\* C1: for every worker, the number of requests put on its task queue whose
\* DONE event has not yet been emitted never exceeds the worker's capacity.
C1_NoOverDispatch ==
    \A k \in 1..Len(workers) : Outstanding(workers[k].id) <= workers[k].capacidade

IsPrefix(a, b) == Len(a) <= Len(b) /\ \A k \in 1..Len(a) : a[k] = b[k]

DispatchedIds == [k \in 1..Len(dispatch_log) |-> dispatch_log[k][1]]

DispatchedTo == [k \in 1..Len(dispatch_log) |-> dispatch_log[k][2]]

\* C2, under SpecB: in Scenario B the requests are dispatched in priority order (101 of
\* priority 1, 103 of priority 2, 102 of priority 3) and each of the three is
\* sent to a distinct worker.
C2_ScenarioBDistinctWorkers ==
    /\ IsPrefix(DispatchedIds, << 101, 103, 102 >>)
    /\ \A j, k \in 1..Len(dispatch_log) : j # k => DispatchedTo[j] # DispatchedTo[k]

\* C3 as stated, under SpecC: in Scenario C the requests are dispatched in arrival-id order
\* (1, 2, 3, 4) and consecutive dispatches alternate between the two workers.
C3_ScenarioCArrivalOrder ==
    /\ IsPrefix(DispatchedIds, << 1, 2, 3, 4 >>)
    /\ \A k \in 1..(Len(dispatch_log) - 1) : DispatchedTo[k] # DispatchedTo[k + 1]

\* C3 amended, under SpecC: in Scenario C the requests are dispatched in the order 1st,
\* 3rd, 2nd, 4th of the arrival order, to workers 1, 2, 1, 2: consecutive
\* dispatches alternate between the two workers.
C3_ScenarioCOrder ==
    IsPrefix(dispatch_log, << << 1, 1 >>, << 3, 2 >>, << 2, 1 >>, << 4, 2 >> >>)

\* Scenario C has dispatched its four requests.
C3_Witness == Len(dispatch_log) = 4

\* a step of the drain that takes one event from out_queue
DrainStep == pc = "drain" /\ out_queue # << >> /\ out_queue' = Tail(out_queue)

\* C4: each START event drained raises the observed active count of its
\* worker by exactly 1, each DONE event lowers it by exactly 1, and no other
\* worker's observed count changes.
C4_MirrorStepsByOne ==
    [][DrainStep =>
          LET ev == Head(out_queue)
          IN  \A k \in 1..Len(workers) :
                 workers'[k].active =
                     IF workers[k].id # ev.worker_id THEN workers[k].active
                     ELSE IF ev.event = "START" THEN workers[k].active + 1
                     ELSE workers[k].active - 1]_vars

\* C5: for every worker, the worker's own counter and the orchestrator's
\* mirror are within 0..capacity, and the worker's own counter equals the
\* number of its tasks that have emitted START and not yet decremented.
C5_ActiveWithinCapacity ==
    \A k \in 1..Len(workers) :
        LET w == workers[k].id
        IN  /\ 0 <= active_count[w] /\ active_count[w] <= workers[k].capacidade
            /\ 0 <= workers[k].active /\ workers[k].active <= workers[k].capacidade
            /\ active_count[w] = Cardinality({t \in threads[w] : t.pc = "sleep"})

\* C10: pick_next_request called with an empty pending list raises for every
\* policy and returns no selection, and master_run never has it raise: the
\* dispatch sub-loop never calls it with an empty pending list.
C10_EmptyPendingRaisesNeverInLoop ==
    /\ (pc = "picked" /\ pending = << >>) => ret = ValueError
    /\ scenario # "fn" => ret.kind # "raise"

\* The dispatch sub-loop stands at its test with pending emptied by its own
\* dispatches and a worker still showing a free slot: only the test keeps
\* pick_next_request from being called with an empty list.
C10_Witness ==
    /\ pc = "dispatch" /\ pending = << >> /\ dispatch_log # << >>
    /\ ChooseWorker.w # None

\* every request has been admitted, dispatched and has had its DONE observed
AllObserved ==
    /\ arrived_idx = total_n
    /\ pending = << >>
    /\ \A k \in 1..total_n :
          /\ \E j \in 1..Len(dispatch_log) : dispatch_log[j][1] = all_requests[k].id
          /\ req_by_id[all_requests[k].id].end_ts # None
    /\ completed >= total_n

\* stop has been signalled to every worker
StopSignalled ==
    /\ stop_event
    /\ \A w \in DOMAIN wpc :
          wpc[w] \in {"shutdown", "terminated"}
              \/ \E i \in 1..Len(task_queue[w]) : task_queue[w][i] = Sentinel

\* C11: for every valid configuration, under fair scheduling of the
\* orchestrator, of every worker thread and of the advance of time, every
\* request is eventually admitted, dispatched and has its DONE event observed,
\* and the orchestrator eventually leaves the main loop, signals stop to every
\* worker and reaches the stopped state.
C11_EventuallyStopped ==
    (config.servidores # << >> /\ config.requisicoes # << >>) =>
        <>(pc = "stopped" /\ ret = Returned(0) /\ AllObserved /\ StopSignalled)

\* The run with the late arrival has stopped: both requests were observed
\* done, stop was signalled and the worker process has ended.
C11_Witness ==
    /\ pc = "stopped" /\ scenario = "L" /\ ret = Returned(0)
    /\ AllObserved /\ StopSignalled
    /\ Len(response_times) = 2
    /\ \A w \in DOMAIN wpc : wpc[w] = "terminated"

\* the requests whose DONE event the orchestrator has processed
DoneObserved == {i \in DOMAIN req_by_id : req_by_id[i].end_ts # None}

\* C12: for every request whose DONE event the orchestrator has processed,
\* end_ts >= start_ts >= arrival_ts (t0 + chegada), and every recorded pair has
\* response_time >= wait_time >= 0; the START of a request has been observed
\* (start_ts and assigned_worker are set) by the time its DONE is.
C12_TimestampsOrdered ==
    /\ \A i \in DoneObserved :
          /\ req_by_id[i].start_ts # None
          /\ req_by_id[i].assigned_worker # None
          /\ req_by_id[i].end_ts >= req_by_id[i].start_ts
          /\ req_by_id[i].start_ts >= ReqOf(i).chegada
    /\ Len(response_times) = Len(wait_times)
    /\ Len(response_times) = Cardinality(DoneObserved)
    /\ \A k \in 1..Len(response_times) :
          response_times[k] >= wait_times[k] /\ wait_times[k] >= 0

\* Two requests are done: one waited past its arrival before it started, and
\* one ended after it started.
C12_Witness ==
    /\ Cardinality(DoneObserved) >= 2
    /\ \E k \in 1..Len(wait_times) : wait_times[k] > 0
    /\ \E k \in 1..Len(wait_times) : response_times[k] > wait_times[k]

\* how many elements of the sequence q satisfy: is about request i
CountIn(q, i) == Cardinality({k \in 1..Len(q) : q[k].id = i})

\* the task messages of request i waiting in w's task queue or executor queue
\* and the run_task calls of i in progress in w
InPipeline(w, i) ==
    Cardinality({k \in 1..Len(task_queue[w]) :
                    task_queue[w][k].kind = "task" /\ task_queue[w][k].id = i})
        + CountIn(exec_q[w], i)
        + Cardinality({t \in threads[w] : t.id = i})

\* the events of kind e about request i waiting in out_queue
EventsInQueue(e, i) ==
    Cardinality({k \in 1..Len(out_queue) : out_queue[k].event = e /\ out_queue[k].id = i})

\* request i has not yet put its START on w: it is queued or about to put it
BeforeStart(w, i) ==
    InPipeline(w, i) - Cardinality({t \in threads[w] : t.id = i /\ t.pc # "put_start"})

\* C13: every request enters pending exactly once, and only when its arrival
\* time is <= the elapsed time; it is removed from pending and sent to exactly
\* one worker's task queue exactly once and never put back. Each request
\* yields exactly one START and one DONE event, both from the worker it was
\* sent to, and assigned_worker is that worker once set.
C13_ExactlyOnce ==
    /\ \A k \in 1..total_n :
          LET i == all_requests[k].id
              inPending == Cardinality({j \in 1..Len(pending) : pending[j].id = i})
              inLog == Cardinality({j \in 1..Len(dispatch_log) : dispatch_log[j][1] = i})
          IN  /\ inPending + inLog = (IF k <= arrived_idx THEN 1 ELSE 0)
              /\ k <= arrived_idx => all_requests[k].chegada <= clock
              /\ inLog = 0 =>
                    /\ \A w \in DOMAIN wpc : InPipeline(w, i) = 0
                    /\ EventsInQueue("START", i) = 0 /\ EventsInQueue("DONE", i) = 0
                    /\ req_by_id[i] = RuntimeFields
    /\ \A j \in 1..Len(dispatch_log) :
          LET i == dispatch_log[j][1]
              w == dispatch_log[j][2]
              started == IF req_by_id[i].start_ts # None THEN 1 ELSE 0
              ended == IF req_by_id[i].end_ts # None THEN 1 ELSE 0
          IN  /\ w \in DOMAIN wpc
              /\ InPipeline(w, i) <= 1
              /\ \A v \in DOMAIN wpc : v # w => InPipeline(v, i) = 0
              /\ EventsInQueue("START", i) + started = 1 - BeforeStart(w, i)
              /\ EventsInQueue("DONE", i) + ended = 1 - InPipeline(w, i)
              /\ \A k \in 1..Len(out_queue) :
                    out_queue[k].id = i => out_queue[k].worker_id = w
              /\ req_by_id[i].assigned_worker = (IF started = 1 THEN w ELSE None)
    /\ start_count = Cardinality({i \in DOMAIN req_by_id : req_by_id[i].start_ts # None})
    /\ completed = Cardinality(DoneObserved)

\* One request is done, a request admitted later waits in pending, an event
\* is still in out_queue and a request observed started is not yet done.
C13_Witness ==
    /\ completed >= 1 /\ pending # << >> /\ out_queue # << >>
    /\ \E i \in DOMAIN req_by_id :
          /\ req_by_id[i].assigned_worker # None
          /\ req_by_id[i].end_ts = None

\* not servers or not reqs_in: a missing list reads as the empty list
InvalidConfig == config.servidores = << >> \/ config.requisicoes = << >>

\* C14: when the configuration's worker list or request list is missing or
\* empty, master_run returns 2 without starting any worker process, without
\* any queue traffic and without dispatching any request; otherwise a run that
\* completes returns 0.
C14_InvalidConfigReturns2 ==
    /\ InvalidConfig =>
          /\ pc \in {"init", "returned"}
          /\ pc = "returned" => ret = [kind |-> "return", value |-> 2]
          /\ pc = "init" => ret = Unset
          /\ wpc = << >> /\ threads = << >> /\ workers = << >>
          /\ task_queue = << >> /\ out_queue = << >> /\ exec_q = << >>
          /\ dispatch_log = << >> /\ pending = << >> /\ arrived_idx = 0
          /\ ~stop_event
    /\ (~InvalidConfig /\ scenario # "fn") =>
          /\ pc # "returned"
          /\ pc = "stopped" => ret = [kind |-> "return", value |-> 0]
          /\ pc # "stopped" => ret = Unset

\* master_run has returned 2 on a configuration that lists a server and no
\* request.
C14_Witness ==
    /\ pc = "returned" /\ ret = [kind |-> "return", value |-> 2]
    /\ config.servidores # << >> /\ config.requisicoes = << >>
    /\ wpc = << >> /\ out_queue = << >>

\* master_run is past its main loop
LeftLoop == pc \in {"finally", "join", "stopped"}

\* C15: the orchestrator leaves the main loop, and signals stop, only in a
\* state where completed >= the total request count and every request has
\* arrived; pending is then empty, every request has been dispatched and has
\* its DONE observed, and no task is queued or running on any worker.
\* Throughout the run completed <= dispatched <= arrived <= total.
C15_ExitOnlyWhenAllDone ==
    /\ stop_event => LeftLoop
    /\ LeftLoop =>
          /\ completed >= Len(all_requests)
          /\ arrived_idx >= Len(all_requests)
          /\ pending = << >>
          /\ \A k \in 1..Len(all_requests) :
                /\ \E j \in 1..Len(dispatch_log) :
                      dispatch_log[j][1] = all_requests[k].id
                /\ req_by_id[all_requests[k].id].end_ts # None
          /\ \A w \in DOMAIN wpc :
                /\ TaskCount(task_queue[w]) = 0
                /\ exec_q[w] = << >>
                /\ threads[w] = {}
          /\ out_queue = << >>
    /\ completed <= Len(dispatch_log)
    /\ Len(dispatch_log) <= arrived_idx
    /\ arrived_idx <= Len(all_requests)

\* The main loop has just been left on a configuration of three requests, the
\* last of them admitted after the first tick.
C15_Witness ==
    /\ pc = "finally" /\ ~stop_event
    /\ Len(all_requests) = 3 /\ completed = 3
    /\ \E k \in 1..3 : all_requests[k].chegada > 0

\* worker w has left its receive loop
LoopLeft(w) == wpc[w] \in {"shutdown", "terminated"}

\* the DONE event of request i has been put on out_queue
DoneEmitted(i) ==
    \/ EventsInQueue("DONE", i) > 0
    \/ i \in DOMAIN req_by_id /\ req_by_id[i].end_ts # None

\* the requests sent to w that w has taken from its inbound queue
TakenBy(w) ==
    {dispatch_log[j][1] : j \in {k \in 1..Len(dispatch_log) : dispatch_log[k][2] = w}}
        \ {task_queue[w][k].id :
              k \in {j \in 1..Len(task_queue[w]) : task_queue[w][j].kind = "task"}}

\* a terminated worker has finished every task it took, and under master_run
\* no task is left behind in its inbound queue
C16_TerminatedAfterTasks ==
    \A w \in DOMAIN wpc :
        /\ wpc[w] = "terminated" =>
              /\ exec_q[w] = << >> /\ threads[w] = {}
              /\ \A i \in TakenBy(w) : DoneEmitted(i)
        /\ (LoopLeft(w) /\ scenario # "unit") => TaskCount(task_queue[w]) = 0

\* a worker that has left its loop takes nothing more from its inbound queue
\* and submits nothing more; a submitted task leaves the executor's queue only
\* to a pool thread, and a pool thread ends only by putting its DONE event
C16_NoNewTaskNoCancel ==
    \A w \in DOMAIN wpc :
        /\ LoopLeft(w) =>
              /\ w \in DOMAIN wpc' /\ wpc'[w] \in {"shutdown", "terminated"}
              /\ IsPrefix(task_queue[w], task_queue'[w])
              /\ Len(exec_q'[w]) <= Len(exec_q[w])
        /\ \A k \in 1..Len(exec_q[w]) :
              \/ \E j \in 1..Len(exec_q'[w]) : exec_q'[w][j] = exec_q[w][k]
              \/ \E t \in threads'[w] : t.id = exec_q[w][k].id
        /\ \A t \in threads[w] :
              \/ \E u \in threads'[w] : u.id = t.id
              \/ /\ out_queue' = Append(out_queue, out_queue'[Len(out_queue')])
                 /\ out_queue'[Len(out_queue')].event = "DONE"
                 /\ out_queue'[Len(out_queue')].id = t.id
                 /\ out_queue'[Len(out_queue')].worker_id = w

\* C16: a worker unit terminates only after every task it took from its
\* inbound channel has finished and emitted its DONE event: after the stop
\* signal or the sentinel message it accepts no new task, and every task
\* already submitted to its slot pool (running or waiting for a slot) still
\* runs to completion; no dispatched task is ever cancelled or lost.
C16_WorkerDrainsBeforeExit ==
    /\ []C16_TerminatedAfterTasks
    /\ [][C16_NoNewTaskNoCancel]_vars
    /\ \A w \in 1..MaxWorkers :
          [](w \in DOMAIN wpc /\ LoopLeft(w) =>
                <>(/\ w \in DOMAIN wpc
                   /\ wpc[w] = "terminated"
                   /\ \A i \in TakenBy(w) : DoneEmitted(i)))

\* The worker has left its loop on the stop signal with one task running and
\* another waiting for the slot.
C16_Witness ==
    /\ \E w \in DOMAIN wpc :
          /\ wpc[w] = "shutdown" /\ stop_event
          /\ \E t \in threads[w] : t.pc = "sleep"
          /\ exec_q[w] # << >>

\* every event worker w has emitted has been drained, and none of its threads
\* stands between an update of the counter and the put of its event
AllEventsDrained(w) ==
    /\ \A k \in 1..Len(out_queue) : out_queue[k].worker_id # w
    /\ \A t \in threads[w] : t.pc = "sleep"

\* C17: whenever all events emitted by a worker have been drained,
\* WorkerInfo.active equals that worker's true active-slot count at that
\* moment (0 when the worker is idle), for every capacity and every
\* interleaving of the worker's task threads.
C17_MirrorConsistentWhenDrained ==
    \A k \in 1..Len(workers) :
        AllEventsDrained(workers[k].id) =>
            workers[k].active = active_count[workers[k].id]

\* a turn of the dispatch sub-loop that sends a request
DispatchStep == pc = "dispatch" /\ dispatch_log' # dispatch_log

\* C18: under policy "rr", each dispatch chooses index rr_cursor mod
\* len(pending), and after the chosen request has been removed the cursor is
\* (cursor + 1) modulo the new, shorter length of pending: a valid index of the
\* shortened list, or 0 when it is empty.
C18_RrCursorWrapsShorter ==
    [][(DispatchStep /\ policy = "rr") =>
          LET idx == rr_req_index % Len(pending)
          IN  /\ dispatch_log'[Len(dispatch_log')][1] = pending[idx + 1].id
              /\ pending' = Pop(pending, idx)
              /\ rr_req_index' = (rr_req_index + 1) % Max(1, Len(pending'))
              /\ rr_req_index' \in 0..Max(0, Len(pending') - 1)]_vars

\* the drain takes an event whose worker_id matches no WorkerInfo
ForeignDrainStep ==
    /\ DrainStep
    /\ \A k \in 1..Len(workers) : workers[k].id # Head(out_queue).worker_id

\* C19: draining a START or DONE event that names a worker id not in the
\* orchestrator's worker set leaves all orchestrator state unchanged (every
\* worker's active and effective-work total, every request's start_ts,
\* end_ts and assigned_worker, the completed counter, the response and wait
\* lists), and the run continues without error.
C19_ForeignEventIgnored ==
    [][ForeignDrainStep =>
          /\ UNCHANGED << workers, req_by_id, completed, start_count,
                          response_times, wait_times >>
          /\ UNCHANGED << pending, arrived_idx, rr_req_index, rr_worker_ptr,
                          dispatch_log, task_queue, stop_event >>
          /\ pc' = "drain" /\ ret' = Unset]_vars

\* A DONE event naming the foreign worker, about a request of the run that is
\* observed started and not yet done, stands at the head of out_queue while
\* the orchestrator drains.
C19_Witness ==
    /\ pc = "drain" /\ out_queue # << >>
    /\ Head(out_queue).worker_id = ForeignWorker
    /\ Head(out_queue).event = "DONE"
    /\ Head(out_queue).id \in DOMAIN req_by_id
    /\ req_by_id[Head(out_queue).id].start_ts # None
    /\ req_by_id[Head(out_queue).id].end_ts = None

\* some worker shows active < capacity in the orchestrator's mirror
FreeInMirror == \E k \in 1..Len(workers) : workers[k].active < workers[k].capacidade

\* Requests that arrive together are admitted in the same tick and are in
\* pending together, so they are dispatched in the same tick: under best-fit
\* they go to the same worker.
C20_SameTickSameWorker ==
    policy # "rr" =>
        \A j, k \in 1..Len(dispatch_log) :
            ReqOf(dispatch_log[j][1]).chegada = ReqOf(dispatch_log[k][1]).chegada
                => dispatch_log[j][2] = dispatch_log[k][2]

\* Only a drained event changes the mirror; and while a worker shows a free
\* slot, a turn of the dispatch sub-loop either sends one pending request or
\* finds pending empty and ends the sub-loop.
C20_SubLoopEmptiesPending ==
    /\ pc # "drain" => workers' = workers \/ pc = "init"
    /\ (pc = "dispatch" /\ FreeInMirror) =>
          \/ /\ pc' = "dispatch"
             /\ UNCHANGED << pending, dispatch_log >>
          \/ /\ pc' = "dispatch"
             /\ pending # << >>
             /\ Len(pending') = Len(pending) - 1
             /\ Len(dispatch_log') = Len(dispatch_log) + 1
          \/ /\ pc' = "arrive"
             /\ pending = << >>
             /\ UNCHANGED << pending, dispatch_log >>

IdleAndDrained(w) ==
    /\ Outstanding(w) = 0
    /\ \A k \in 1..Len(out_queue) : out_queue[k].worker_id # w

\* an idle, drained worker shows a free slot in the mirror; with every worker
\* idle and drained, the worker choice of the dispatch sub-loop finds one
C21_IdleWorkerNotSaturated ==
    /\ \A k \in 1..Len(workers) :
          IdleAndDrained(workers[k].id) =>
              /\ workers[k].active >= 0
              /\ workers[k].active <= workers[k].capacidade - 1
    /\ (workers # << >> /\ \A k \in 1..Len(workers) : IdleAndDrained(workers[k].id))
          => ChooseWorker.w # None

\* the drain of a START event never leaves its worker idle and drained: the
\* DONE of the same request is still to come, so the last event drained from
\* an idle worker is a DONE
C21_StartIsNeverLast ==
    (DrainStep /\ Head(out_queue).event = "START") =>
        \A k \in 1..Len(workers) :
            workers[k].id = Head(out_queue).worker_id =>
                \/ Cardinality(threads'[workers[k].id]) > 0
                \/ \E j \in 1..Len(out_queue') :
                      /\ out_queue'[j].worker_id = workers[k].id
                      /\ out_queue'[j].event = "DONE"
                      /\ out_queue'[j].id = Head(out_queue).id

\* C21: for every worker and every interleaving of its task threads, whenever
\* the worker has no running or queued task and all its events have been
\* drained, the last event drained from it is a DONE, so the mirror satisfies
\* WorkerInfo.active <= capacity - 1; a stale mirror never marks an idle
\* worker as saturated, so it cannot block the dispatch of pending requests.
C21_StaleMirrorNeverBlocksIdle ==
    /\ []C21_IdleWorkerNotSaturated
    /\ [][C21_StartIsNeverLast]_vars

\* A worker of capacity 2 is idle and drained with a stale mirror of 1 (its
\* two DONE events were put in the reverse order of the decrements), while a
\* request waits in pending at the dispatch sub-loop.
C21_Witness ==
    /\ pc = "dispatch" /\ pending # << >>
    /\ \E k \in 1..Len(workers) :
          /\ workers[k].capacidade = 2
          /\ IdleAndDrained(workers[k].id)
          /\ workers[k].active = 1
          /\ active_count[workers[k].id] = 0

===========================================================================
